---- MODULE Spec2Model ----
(***************************************************************************)
(* Model of the MEOWT moderation bot.  The repository holds several        *)
(* versions of the same single-run program; each is a value of `variant`:  *)
(*   "mod"     src/moderator.mjs                                           *)
(*   "mod3"    src/unnamed/part_003 lines 1-288   (language-aware retry)   *)
(*   "mod4"    src/unnamed/part_004 lines 1-276   (raw inline fallback)    *)
(*   "bot"     src/unnamed/part_002               (bot/moderator.mjs)      *)
(*   "keeper0" src/unnamed/part_000               (keeper + moderate.ts)   *)
(*   "keeper3" src/unnamed/part_003 lines 290-432 (keeper, sanity checks)  *)
(*   "keeper4" src/unnamed/part_004 lines 325-445 (keeper, modFlagged)     *)
(* Runs are invocations of one program version against one ledger; they    *)
(* interleave at their await points.  Strings are abstracted to what the   *)
(* code observes of them: their length and how many leading characters are *)
(* whitespace (slice(0,n), trim() and truthiness are exact on that).       *)
(* Scores and thresholds are in hundredths (0.85 is 85).                   *)
(***************************************************************************)
EXTENDS Integers, Sequences, FiniteSets, TLC

\* ---------------------------------------------------------------- bounds
MaxId == 1

\* two invocations of the agent with overlapping schedules
Runs == {1, 2}
Ids == 1..MaxId

Variants == {"mod", "mod3", "mod4", "bot", "keeper0", "keeper3", "keeper4"}

Min(a, b) == IF a <= b THEN a ELSE b

\* ---------------------------------------------------------------- text
\* A string: len characters, the first lead of them whitespace (lead = len:
\* the string is empty or whitespace only).  tag names where it came from.
Str(lead, len, tag) == [isNull |-> FALSE, lead |-> lead, len |-> len, tag |-> tag]
NullText == [isNull |-> TRUE, lead |-> 0, len |-> 0, tag |-> "null"]
EmptyText == Str(0, 0, "empty")

\* text.slice(0, cap)
Slice(t, cap) == Str(Min(t.lead, cap), Min(t.len, cap), t.tag)

\* !text.trim()
TrimIsEmpty(t) == t.lead = t.len

\* (mutant) the emptiness check without trim()
NoText_NoTrim(t) == t.isNull \/ t.len = 0

\* !text || !text.trim()
NoText(t) == t.isNull \/ t.len = 0 \/ TrimIsEmpty(t)


\* ---------------------------------------------------------------- content references
\* A reference (the uri field of a message):
\*   scheme  "empty"      ''
\*           "meow"       meow:text:<payload>, payload = tokens
\*           "data"       data:text/plain;base64,<payload>, body = the decoded bytes as UTF-8
\*           "dataOther"  data:<another media type>;base64,<payload>
\*           "ipfs"       ipfs://<cid>[/path]
\*           "http"       http://... or https://...
\*           "other"      any other scheme, or no scheme
\* tokens are the payload's characters: "a" a letter, "sp" a literal space,
\* "%20" an escaped space (three characters), "%" a stray percent sign.
Uri(scheme, tokens, body) == [scheme |-> scheme, tokens |-> tokens, body |-> body]

TokenLen(t) == IF t = "%20" THEN 3 ELSE 1

RECURSIVE RawLen(_)
RawLen(tokens) ==
  IF tokens = <<>> THEN 0 ELSE TokenLen(Head(tokens)) + RawLen(Tail(tokens))

RECURSIVE LeadCount(_, _)
LeadCount(tokens, white) ==
  IF tokens = <<>> \/ Head(tokens) \notin white THEN 0
  ELSE 1 + LeadCount(Tail(tokens), white)

\* uri.slice('meow:text:'.length), as a string
RawPayload(tokens) == Str(LeadCount(tokens, {"sp"}), RawLen(tokens), "raw")

\* decodeURIComponent(payload): throws URIError on a stray "%"
DecodeOk(tokens) == \A i \in 1..Len(tokens) : tokens[i] # "%"
DecodeURIComponent(tokens) == Str(LeadCount(tokens, {"sp", "%20"}), Len(tokens), "decoded")

\* ---------------------------------------------------------------- network
\* The answer to one fetch(): it throws (network error, abort on timeout), it
\* answers with a non-success status, or it answers ok with a body.
Fetched(kind, body) == [kind |-> kind, body |-> body]
GwTag(k) == <<"gw1", "gw2", "gw3">>[k]

TextCap == 8000
KeeperCap == 10000

\* The for-loop over candidates of getTextFromUri: index of the first
\* candidate k..n whose answer is ok with a non-blank body, 0 if none.
RECURSIVE FirstGood(_, _, _)
FirstGood(net, k, n) ==
  IF k > n THEN 0
  ELSE IF net[k].kind = "ok" /\ ~NoText(net[k].body) THEN k
  ELSE FirstGood(net, k + 1, n)

\* The for-loop of part_002's fetchTextFromUri: first candidate with res.ok.
RECURSIVE FirstOk(_, _, _)
FirstOk(net, k, n) ==
  IF k > n THEN 0
  ELSE IF net[k].kind = "ok" THEN k
  ELSE FirstOk(net, k + 1, n)

Resolved(text, fetches) == [text |-> text, fetches |-> fetches]

\* (mutant) the candidate is fetched without the test for http(s)
GetTextFromUri_NoSchemeTest(v, uri, net) ==
  CASE uri.scheme = "empty" -> Resolved(NullText, 0)
    [] uri.scheme = "meow" ->
         IF DecodeOk(uri.tokens) THEN Resolved(DecodeURIComponent(uri.tokens), 0)
         ELSE IF v = "mod4" THEN Resolved(RawPayload(uri.tokens), 0)
         ELSE Resolved(NullText, 0)
    [] uri.scheme = "data" -> Resolved(uri.body, 0)
    [] OTHER ->
         LET n == IF uri.scheme = "ipfs" THEN 3 ELSE 1
             k == FirstGood(net, 1, n)
         IN IF k = 0 THEN Resolved(NullText, n)
            ELSE Resolved(Slice([net[k].body EXCEPT !.tag = GwTag(k)], TextCap), k)

\* getTextFromUri of the moderator versions.  v = "mod4" falls back to the
\* raw payload when decoding throws; the others fall into the outer catch.
GetTextFromUri(v, uri, net) ==
  CASE uri.scheme = "empty" -> Resolved(NullText, 0)
    [] uri.scheme = "meow" ->
         IF DecodeOk(uri.tokens) THEN Resolved(DecodeURIComponent(uri.tokens), 0)
         ELSE IF v = "mod4" THEN Resolved(RawPayload(uri.tokens), 0)
         ELSE Resolved(NullText, 0)
    [] uri.scheme = "data" -> Resolved(uri.body, 0)
    [] uri.scheme \in {"ipfs", "http"} ->
         LET n == IF uri.scheme = "ipfs" THEN 3 ELSE 1
             k == FirstGood(net, 1, n)
         IN IF k = 0 THEN Resolved(NullText, n)
            ELSE Resolved(Slice([net[k].body EXCEPT !.tag = GwTag(k)], TextCap), k)
    [] OTHER -> Resolved(NullText, 0)

\* fetchTextFromUri of part_002: three candidates for every reference (the
\* same URL three times unless it names ipfs.io), no timeout, no cap, and an
\* ok answer is returned even when its body is empty.  fetch() of a data: URL
\* answers ok with the decoded payload, without reaching the network; fetch()
\* of any other URL that is not http(s) rejects without reaching the network.
BotFetchTextFromUri(uri, net) ==
  CASE uri.scheme = "empty" -> Resolved(EmptyText, 0)
    [] uri.scheme = "meow" ->
         IF DecodeOk(uri.tokens) THEN Resolved(DecodeURIComponent(uri.tokens), 0)
         ELSE Resolved(EmptyText, 0)
    [] uri.scheme = "data" -> Resolved(uri.body, 0)
    [] uri.scheme = "dataOther" -> Resolved(uri.body, 0)
    [] uri.scheme \in {"ipfs", "http"} ->
         LET k == FirstOk(net, 1, 3)
         IN IF k = 0 THEN Resolved(EmptyText, 3)
            ELSE Resolved([net[k].body EXCEPT !.tag = GwTag(k)], k)
    [] OTHER -> Resolved(EmptyText, 0)

\* fetchTextFromUri of the keepers: one gateway, one attempt, cap 10000.
KeeperFetchTextFromUri(uri, net) ==
  IF net[1].kind = "ok"
  THEN Resolved(Slice([net[1].body EXCEPT !.tag = GwTag(1)], KeeperCap), 1)
  ELSE Resolved(NullText, 1)

\* (mutant) the lookup is made without the test for CONFIG.modApiUrl
FetchMeowTextByHash_NoConfigTest(api) ==
  IF api.answer.kind # "ok" THEN Resolved(NullText, 1)
  ELSE LET t == Slice([api.answer.body EXCEPT !.tag = "api"], KeeperCap)
       IN Resolved(IF t.len = 0 THEN NullText ELSE t, 1)

\* fetchMeowTextByHash: api = [configured, answer]; the answer's body is the
\* text field of the JSON (empty when the field is missing).
FetchMeowTextByHash(api) ==
  IF ~api.configured THEN Resolved(NullText, 0)
  ELSE IF api.answer.kind # "ok" THEN Resolved(NullText, 1)
  ELSE LET t == Slice([api.answer.body EXCEPT !.tag = "api"], KeeperCap)
       IN Resolved(IF t.len = 0 THEN NullText ELSE t, 1)

\* resolveMessageText of the keepers
ResolveMessageText(uri, net, api) ==
  CASE uri.scheme = "meow" -> FetchMeowTextByHash(api)
    [] uri.scheme \in {"http", "ipfs"} -> KeeperFetchTextFromUri(uri, net)
    [] OTHER -> Resolved(NullText, 0)

IsKeeper(v) == v \in {"keeper0", "keeper3", "keeper4"}

\* The content resolution step of main, by program version.
ResolveText(v, uri, net, api) ==
  IF IsKeeper(v) THEN ResolveMessageText(uri, net, api)
  ELSE IF v = "bot" THEN BotFetchTextFromUri(uri, net)
  ELSE GetTextFromUri(v, uri, net)

\* ---------------------------------------------------------------- scores
Attrs == {"TOXICITY", "SEVERE_TOXICITY", "INSULT", "THREAT", "IDENTITY_ATTACK",
          "SEXUALLY_EXPLICIT", "PROFANITY"}

\* DEFAULT_ATTRS, the attributes the moderator versions request
DEFAULT_ATTRS == {"TOXICITY", "INSULT", "THREAT", "SEXUALLY_EXPLICIT", "PROFANITY",
                  "IDENTITY_ATTACK"}
\* the attributes part_002 requests
BotAttrs == {"TOXICITY", "INSULT", "PROFANITY", "THREAT"}

ZeroScores == [a \in Attrs |-> 0]

\* take(k) / pick(k) / g(k) for every attribute the adapter returns: the
\* service's summary score where the attribute was requested and scored, else 0
TakeScores(m, requested) == [a \in Attrs |-> IF a \in requested THEN m[a] ELSE 0]

\* An answer of a classification service
Ok(scores) == [kind |-> "ok", scores |-> scores, attr |-> "none"]
NotOk == [kind |-> "notok", scores |-> ZeroScores, attr |-> "none"]
Throws == [kind |-> "throw", scores |-> ZeroScores, attr |-> "none"]

\* What a scoring step hands back to main
Scored(kind, scores, calls) == [kind |-> kind, scores |-> scores, calls |-> calls]

\* perspectiveScores of src/moderator.mjs and part_004: one request; a missing
\* OAuth token or a non-success answer throws.
PerspectiveScores(svc) ==
  IF svc.auth = "notoken" THEN Scored("throw", ZeroScores, 0)
  ELSE IF svc.final.kind = "ok"
       THEN Scored("map", TakeScores(svc.final.scores, DEFAULT_ATTRS), 1)
       ELSE Scored("throw", ZeroScores, 1)

\* (mutant) a rejection drops the head of the attribute list, whatever
\* attribute the service named
RECURSIVE RetryLoop_DropsFirst(_, _, _, _)
RetryLoop_DropsFirst(svc, attrs, rejects, calls) ==
  IF attrs = {} THEN Scored("map", ZeroScores, calls)
  ELSE IF svc.auth = "notoken" THEN Scored("throw", ZeroScores, calls)
  ELSE IF rejects # <<>>
       THEN RetryLoop_DropsFirst(svc, attrs \ {CHOOSE a \in attrs : TRUE}, Tail(rejects),
                                 calls + 1)
  ELSE IF svc.final.kind = "ok"
       THEN Scored("map", TakeScores(svc.final.scores, attrs), calls + 1)
       ELSE Scored("throw", ZeroScores, calls + 1)

\* perspectiveScores of part_003: svc.rejects are the attributes the service
\* rejects, one 400 LANGUAGE_NOT_SUPPORTED_BY_ATTRIBUTE answer each, before it
\* gives its final answer.  attrs is the request set, calls the requests sent.
RECURSIVE RetryLoop(_, _, _, _)
RetryLoop(svc, attrs, rejects, calls) ==
  IF attrs = {} THEN Scored("map", ZeroScores, calls)
  ELSE IF svc.auth = "notoken" THEN Scored("throw", ZeroScores, calls)
  ELSE IF rejects # <<>>
       THEN RetryLoop(svc, attrs \ {Head(rejects)}, Tail(rejects), calls + 1)
  ELSE IF svc.final.kind = "ok"
       THEN Scored("map", TakeScores(svc.final.scores, attrs), calls + 1)
       ELSE Scored("throw", ZeroScores, calls + 1)

\* (mutant) the scores of the first answer are taken for every attribute,
\* rejected or not
LangPerspectiveScores_KeepsRejected(svc) ==
  LET r == RetryLoop(svc, DEFAULT_ATTRS, svc.rejects, 0)
  IN IF r.kind = "map" /\ svc.final.kind = "ok"
     THEN [r EXCEPT !.scores = TakeScores(svc.final.scores, DEFAULT_ATTRS)]
     ELSE r

LangPerspectiveScores(svc) == RetryLoop(svc, DEFAULT_ATTRS, svc.rejects, 0)

BotDocCap == 3000

\* perspectiveScore of part_002: null, without a request, when the first
\* 3000 characters are blank; throws on a non-success answer.
BotPerspectiveScore(text, svc) ==
  IF TrimIsEmpty(Slice(text, BotDocCap)) THEN Scored("null", ZeroScores, 0)
  ELSE IF svc.final.kind = "ok"
       THEN Scored("map", TakeScores(svc.final.scores, BotAttrs), 1)
       ELSE Scored("throw", ZeroScores, 1)

\* (mutant) strict comparisons
ShouldFlag_Strict(s) ==
  \/ s["TOXICITY"] > 85
  \/ s["INSULT"] > 80
  \/ s["THREAT"] > 70
  \/ s["SEXUALLY_EXPLICIT"] > 90
  \/ s["PROFANITY"] > 80
  \/ s["IDENTITY_ATTACK"] > 75

\* shouldFlag of the moderator versions
ShouldFlag(s) ==
  \/ s["TOXICITY"] >= 85
  \/ s["INSULT"] >= 80
  \/ s["THREAT"] >= 70
  \/ s["SEXUALLY_EXPLICIT"] >= 90
  \/ s["PROFANITY"] >= 80
  \/ s["IDENTITY_ATTACK"] >= 75

\* shouldFlag of part_002 (default thresholds), false on null scores
BotShouldFlag(kind, s) ==
  /\ kind # "null"
  /\ \/ s["TOXICITY"] >= 85
     \/ s["INSULT"] >= 85
     \/ s["PROFANITY"] >= 85
     \/ s["THREAT"] >= 80

\* ---------------------------------------------------------------- moderate.ts
Reason(label, value) == [label |-> label, value |-> value]
ModResult(flagged, reasons, provider, calls) ==
  [flagged |-> flagged, reasons |-> reasons, provider |-> provider, calls |-> calls]
NoMod == ModResult(FALSE, <<>>, "unset", 0)

\* The reasons of analyzeWithPerspective, in the order of its if statements
PerspectiveChecks ==
  << <<"SEVERE_TOXICITY", 50>>, <<"TOXICITY", 83>>, <<"THREAT", 80>>, <<"INSULT", 90>>,
     <<"PROFANITY", 95>>, <<"SEXUALLY_EXPLICIT", 90>>, <<"IDENTITY_ATTACK", 80>> >>

\* (mutant) each reason is put in front of the ones found so far
RECURSIVE PerspectiveReasons_Reversed(_, _)
PerspectiveReasons_Reversed(scores, i) ==
  IF i > Len(PerspectiveChecks) THEN <<>>
  ELSE LET a == PerspectiveChecks[i][1]
           t == PerspectiveChecks[i][2]
       IN PerspectiveReasons_Reversed(scores, i + 1)
          \o (IF scores[a] >= t THEN <<Reason(a, scores[a])>> ELSE <<>>)

RECURSIVE PerspectiveReasons(_, _)
PerspectiveReasons(scores, i) ==
  IF i > Len(PerspectiveChecks) THEN <<>>
  ELSE LET a == PerspectiveChecks[i][1]
           t == PerspectiveChecks[i][2]
       IN (IF scores[a] >= t THEN <<Reason(a, scores[a])>> ELSE <<>>)
          \o PerspectiveReasons(scores, i + 1)

\* getPerspectiveScores(text).catch(() => null): null without a request when
\* the key is missing, null when fetch throws or answers non-success
AnalyzeWithPerspective(cfg, svc) ==
  IF ~cfg.perspectiveKey
  THEN ModResult(FALSE, <<Reason("perspective: unavailable", 0)>>, "perspective", 0)
  ELSE IF svc.perspective.kind # "ok"
  THEN ModResult(FALSE, <<Reason("perspective: unavailable", 0)>>, "perspective", 1)
  ELSE LET reasons == PerspectiveReasons(TakeScores(svc.perspective.scores, Attrs), 1)
       IN ModResult(Len(reasons) > 0, reasons, "perspective", 1)

\* An answer of the categorical service: kind "ok" carries results[0] as
\* [present, flagged, cats], cats the categories set to true, in key order;
\* json says whether res.json() gives a value or rejects (a body that is not
\* JSON), "none" when the body is never read.
RECURSIVE CategoryReasons(_)
CategoryReasons(cats) ==
  IF cats = <<>> THEN <<>>
  ELSE <<Reason("OPENAI:" \o Head(cats), 1)>> \o CategoryReasons(Tail(cats))

AnalyzeWithOpenAI(cfg, svc) ==
  IF ~cfg.openaiKey
  THEN ModResult(FALSE, <<Reason("openai: no key", 0)>>, "openai", 0)
  ELSE IF svc.openai.kind # "ok"
  THEN ModResult(FALSE, <<Reason("openai: unavailable", 0)>>, "openai", 1)
  ELSE IF svc.openai.json = "throws" \/ ~svc.openai.present
  THEN ModResult(FALSE, <<Reason("openai: empty", 0)>>, "openai", 1)
  ELSE ModResult(svc.openai.flagged, CategoryReasons(svc.openai.cats), "openai", 1)

\* reasons.includes(label)
Includes(reasons, label) == \E i \in 1..Len(reasons) : reasons[i].label = label

\* moderateText: the for-loop over ORDER from position i, calls the requests
\* sent so far
RECURSIVE ModerateFrom(_, _, _, _)
ModerateFrom(cfg, svc, i, calls) ==
  IF i > Len(cfg.order)
  THEN ModResult(FALSE, <<Reason("no provider configured", 0)>>, "none", calls)
  ELSE LET p == cfg.order[i]
       IN IF p = "perspective"
          THEN LET r == AnalyzeWithPerspective(cfg, svc)
               IN IF Includes(r.reasons, "perspective: unavailable")
                  THEN ModerateFrom(cfg, svc, i + 1, calls + r.calls)
                  ELSE [r EXCEPT !.calls = calls + r.calls]
          ELSE IF p = "openai"
          THEN LET r == AnalyzeWithOpenAI(cfg, svc)
               IN IF Includes(r.reasons, "openai: no key")
                     \/ Includes(r.reasons, "openai: unavailable")
                  THEN ModerateFrom(cfg, svc, i + 1, calls + r.calls)
                  ELSE [r EXCEPT !.calls = calls + r.calls]
          ELSE ModerateFrom(cfg, svc, i + 1, calls)

\* (mutant) the categorical provider is consulted as well when the first
\* verdict does not flag, and its flag wins
moderateText_Aggregates(cfg, svc) ==
  LET r == ModerateFrom(cfg, svc, 1, 0)
      o == AnalyzeWithOpenAI(cfg, svc)
  IN IF r.provider = "perspective" /\ ~r.flagged /\ o.flagged
     THEN [o EXCEPT !.calls = r.calls + o.calls]
     ELSE r

\* (mutant) no usable provider is treated as a violation
moderateText_FailClosed(cfg, svc) ==
  LET r == ModerateFrom(cfg, svc, 1, 0)
  IN IF r.provider = "none" THEN [r EXCEPT !.flagged = TRUE] ELSE r

\* (mutant) an identifier that names no provider is taken for the
\* categorical provider
moderateText_UnknownIsOpenAI(cfg, svc) ==
  ModerateFrom([cfg EXCEPT !.order = [i \in 1..Len(cfg.order) |->
                                        IF cfg.order[i] = "perspective"
                                        THEN "perspective" ELSE "openai"]],
               svc, 1, 0)

moderateText(cfg, svc) == ModerateFrom(cfg, svc, 1, 0)

\* the clip of getPerspectiveScores
ClipCap == 8000

\* The text an adapter puts into the body of its request, for the text it
\* is called with: getPerspectiveScores and analyzeWithOpenAI of moderate.ts,
\* perspectiveScores of the moderator versions (makeBody in part_003),
\* perspectiveScore of part_002.
RequestText(adapter, text) ==
  CASE adapter = "getPerspectiveScores" -> Slice(text, ClipCap)
    [] adapter = "analyzeWithOpenAI" -> text
    [] adapter = "perspectiveScores" -> text
    [] adapter = "perspectiveScore" -> Slice(text, BotDocCap)

Adapters == {"getPerspectiveScores", "analyzeWithOpenAI", "perspectiveScores",
             "perspectiveScore"}

\* ---------------------------------------------------------------- inputs
\* The references, answers and score maps the runs are given.
NoUri == Uri("empty", <<>>, EmptyText)
SampleUris ==
  { NoUri,
    Uri("meow", <<"a", "%20", "a">>, EmptyText),
    Uri("data", <<>>, Str(0, 5, "data")),
    Uri("ipfs", <<>>, EmptyText),
    Uri("http", <<>>, EmptyText),
    Uri("other", <<>>, EmptyText) }

FetchAnswers ==
  { Fetched("throw", EmptyText), Fetched("notok", EmptyText),
    Fetched("ok", Str(0, 0, "body")), Fetched("ok", Str(2, 2, "body")),
    Fetched("ok", Str(0, 9000, "body")) }
Nets == [1..3 -> FetchAnswers]
Apis == [configured : BOOLEAN, answer : FetchAnswers]

SampleScores ==
  { ZeroScores,
    [ZeroScores EXCEPT !["TOXICITY"] = 84],
    [ZeroScores EXCEPT !["TOXICITY"] = 85],
    [ZeroScores EXCEPT !["THREAT"] = 70, !["SEVERE_TOXICITY"] = 50],
    [a \in Attrs |-> 100] }
FinalAnswers == {NotOk, Throws} \cup {Ok(m) : m \in SampleScores}
SampleRejects == {<<>>, <<"THREAT">>, <<"TOXICITY", "THREAT">>}
PerspectiveSvcs ==
  [auth : {"key", "adc", "notoken"}, final : FinalAnswers, rejects : SampleRejects]

OpenAIAnswers ==
  { [kind |-> "throw", json |-> "none", present |-> FALSE, flagged |-> FALSE, cats |-> <<>>],
    [kind |-> "notok", json |-> "none", present |-> FALSE, flagged |-> FALSE, cats |-> <<>>],
    [kind |-> "ok", json |-> "throws", present |-> FALSE, flagged |-> FALSE, cats |-> <<>>],
    [kind |-> "ok", json |-> "value", present |-> FALSE, flagged |-> FALSE, cats |-> <<>>],
    [kind |-> "ok", json |-> "value", present |-> TRUE, flagged |-> FALSE, cats |-> <<>>],
    [kind |-> "ok", json |-> "value", present |-> TRUE, flagged |-> TRUE,
     cats |-> <<"hate", "violence">>] }
Orders == { <<"perspective", "openai">>, <<"openai", "perspective">>, <<"perspective">>, <<>> }
ModCfgs == [order : Orders, perspectiveKey : BOOLEAN, openaiKey : BOOLEAN]
ModSvcs == [perspective : FinalAnswers, openai : OpenAIAnswers]

\* ---------------------------------------------------------------- state
VARIABLES
  variant,          \* the program version every run executes
  activeMessageId,  \* ledger: activeMessageId()
  messages,         \* ledger: messages(id), its resolved and uri fields
  modFlagged,       \* ledger: modFlagged(id)
  run,              \* per run: position, locals, transaction, outcome, call counters
  callFn,           \* the function examined on its own ("none" while runs execute)
  callArg,          \* its input
  callRet,          \* [done, val]: whether it has returned, and what
  dryRun            \* CONFIG.dryRun: DRY_RUN=true in the environment

vars == <<variant, activeMessageId, messages, modFlagged, run, callFn, callArg, callRet,
          dryRun>>

\* the examination of single functions, idle while runs execute
Calls == <<callFn, callArg, callRet>>
NoRet == [done |-> FALSE, val |-> <<>>]

Tri(b) == IF b THEN "true" ELSE "false"

NoCalls == [id |-> 0, item |-> 0, flag |-> 0, resolve |-> 0, fetch |-> 0, score |-> 0,
            submit |-> 0]

InitRun ==
  [ pc |-> "idle",        \* idle, readId, reading, resolve, score, submit, wait, sleep, done
    id |-> 0,             \* const id / activeId
    pending |-> {},       \* ledger reads in flight: "msg", "flag"
    resolved |-> "unset", \* msg.resolved as read
    flagged |-> "unset",  \* the result of modFlagged(id) as read
    text |-> NullText,    \* const text
    scoreKind |-> "unset",\* unset, map, null
    scores |-> ZeroScores,\* const scores (moderator versions)
    mod |-> NoMod,        \* const mod (keepers)
    tx |-> "none",        \* none, rejected, pending, success, reverted
    outcome |-> "none",
    exit |-> -1,          \* process exit code, -1 while running
    n |-> NoCalls,        \* calls made so far, by kind
    after |-> FALSE ]     \* started when a run had ended Flagged and the flag was set

\* Versions that read modFlagged(id)
ReadsFlag(v) == v \notin {"keeper0", "keeper3"}
\* Versions that read messages(id) and modFlagged(id) under one Promise.all
ParallelReads(v) == v \in {"mod", "mod3", "mod4"}
\* Versions that await the receipt of the transaction they sent
WaitsReceipt(v) == v # "bot"
\* Versions that check the RPC / the contract address before step 1
HasSanityCheck(v) == v \in {"mod3", "mod4", "keeper0", "keeper3"}

Init ==
  /\ variant \in Variants
  /\ activeMessageId \in 0..MaxId
  /\ \E res \in BOOLEAN, u \in SampleUris, fl \in BOOLEAN :
       /\ messages = [i \in Ids |->
                        IF i = activeMessageId THEN [resolved |-> res, uri |-> u]
                        ELSE [resolved |-> TRUE, uri |-> NoUri]]
       /\ modFlagged = [i \in Ids |-> i = activeMessageId /\ fl]
  /\ run = [r \in Runs |-> InitRun]
  /\ callFn = "none" /\ callArg = <<>> /\ callRet = NoRet
  /\ dryRun \in BOOLEAN

\* return from main: the run ends with an outcome, exit code 0
Return(rec, outcome) == [rec EXCEPT !.pc = "done", !.outcome = outcome, !.exit = 0]
\* main().catch: an exception ends the run, exit code 1
Catch(rec, outcome) == [rec EXCEPT !.pc = "done", !.outcome = outcome, !.exit = 1]

Count(rec, kind, k) == [rec EXCEPT !.n[kind] = @ + k]

Set(r, rec) == run' = [run EXCEPT ![r] = rec]
Ledger == <<variant, activeMessageId, messages, modFlagged>>

\* A run starts; the versions with a sanity check may fail it.
Start(r) ==
  /\ run[r].pc = "idle"
  /\ LET rec == [run[r] EXCEPT !.after =
                   /\ activeMessageId # 0
                   /\ modFlagged[activeMessageId]
                   /\ \E q \in Runs : run[q].outcome = "Flagged"]
     IN \/ Set(r, [rec EXCEPT !.pc = "readId"])
        \/ HasSanityCheck(variant) /\ Set(r, Catch(rec, "InternalError"))
  /\ UNCHANGED <<Ledger, Calls, dryRun>>

\* (mutant) step 1 without the check for id 0
AfterActiveId_NoZeroCheck(v, rec, id) ==
  [Count([rec EXCEPT !.id = id], "id", 1) EXCEPT
     !.pc = "reading",
     !.pending = IF ParallelReads(v) THEN {"msg", "flag"} ELSE {"msg"}]

\* 1) const id = await activeMessageId(), and the check of the id
AfterActiveId(v, rec, id) ==
  LET got == Count([rec EXCEPT !.id = id], "id", 1)
  IN IF id = 0 THEN Return(got, "NoActiveItem")
     ELSE [got EXCEPT !.pc = "reading",
                      !.pending = IF ParallelReads(v) THEN {"msg", "flag"} ELSE {"msg"}]

ReadActiveId(r) ==
  /\ run[r].pc = "readId"
  /\ \/ Set(r, Catch(run[r], "InternalError"))
     \/ Set(r, AfterActiveId(variant, run[r], activeMessageId))
  /\ UNCHANGED <<Ledger, Calls, dryRun>>

\* (mutant) the flagged check made before the resolved check
AfterRead_FlagFirst(v, rec) ==
  IF rec.pending # {} THEN rec
  ELSE IF rec.flagged = "true" THEN Return(rec, "AlreadyFlagged")
  ELSE IF rec.resolved = "true" THEN Return(rec, "AlreadyResolved")
  ELSE IF ReadsFlag(v) /\ rec.flagged = "unset" THEN [rec EXCEPT !.pending = {"flag"}]
  ELSE [rec EXCEPT !.pc = "resolve"]

\* The checks main makes once the reads it awaited have returned.
AfterRead(v, rec) ==
  IF rec.pending # {} THEN rec
  ELSE IF rec.resolved = "true" THEN Return(rec, "AlreadyResolved")
  ELSE IF rec.flagged = "true" THEN Return(rec, "AlreadyFlagged")
  ELSE IF ReadsFlag(v) /\ rec.flagged = "unset" THEN [rec EXCEPT !.pending = {"flag"}]
  ELSE [rec EXCEPT !.pc = "resolve"]

\* 2) messages(id) answers
ReadMessage(r) ==
  /\ run[r].pc = "reading" /\ "msg" \in run[r].pending
  /\ \/ Set(r, Catch(run[r], "InternalError"))
     \/ Set(r, AfterRead(variant,
                 Count([run[r] EXCEPT !.resolved = Tri(messages[run[r].id].resolved),
                                      !.pending = @ \ {"msg"}], "item", 1)))
  /\ UNCHANGED <<Ledger, Calls, dryRun>>

\* 3) modFlagged(id) answers
ReadModFlagged(r) ==
  /\ run[r].pc = "reading" /\ "flag" \in run[r].pending
  /\ \/ Set(r, Catch(run[r], "InternalError"))
     \/ Set(r, AfterRead(variant,
                 Count([run[r] EXCEPT !.flagged = Tri(modFlagged[run[r].id]),
                                      !.pending = @ \ {"flag"}], "flag", 1)))
  /\ UNCHANGED <<Ledger, Calls, dryRun>>

\* 4) text = await getTextFromUri(uri) and the check of the text
AfterResolve(rec, res) ==
  LET got == Count(Count([rec EXCEPT !.text = res.text], "resolve", 1), "fetch", res.fetches)
  IN IF NoText(res.text) THEN Return(got, "NoRetrievableText")
     ELSE [got EXCEPT !.pc = "score"]

\* what the resolution of a reference can yield, over every behaviour of the
\* network and of the off-chain index
ResolveOutcomes ==
  [v \in Variants, u \in SampleUris |->
     {ResolveText(v, u, net, api) : net \in Nets, api \in Apis}]

Resolve(r) ==
  /\ run[r].pc = "resolve"
  /\ \E res \in ResolveOutcomes[variant, messages[run[r].id].uri] :
       Set(r, AfterResolve(run[r], res))
  /\ UNCHANGED <<Ledger, Calls, dryRun>>

\* 5) the scoring call and the decision
ScoreText(v, text, svc) ==
  IF v = "bot" THEN BotPerspectiveScore(text, svc)
  ELSE IF v = "mod3" THEN LangPerspectiveScores(svc)
  ELSE PerspectiveScores(svc)

Decide(v, s) ==
  IF v = "bot" THEN BotShouldFlag(s.kind, s.scores) ELSE ShouldFlag(s.scores)

AfterScores(rec, s, flag) ==
  LET got == Count(rec, "score", s.calls)
  IN IF s.kind = "throw" THEN Catch(got, "InternalError")
     ELSE LET kept == [got EXCEPT !.scoreKind = s.kind, !.scores = s.scores]
          IN IF flag THEN [kept EXCEPT !.pc = "submit"] ELSE Return(kept, "Passed")

\* (mutant) flagging whenever the result carries a reason
AfterModerate_AnyReason(rec, m) ==
  LET got == Count([rec EXCEPT !.mod = m], "score", m.calls)
  IN IF Len(m.reasons) > 0 THEN [got EXCEPT !.pc = "submit"] ELSE Return(got, "Passed")

AfterModerate(rec, m) ==
  LET got == Count([rec EXCEPT !.mod = m], "score", m.calls)
  IN IF m.flagged THEN [got EXCEPT !.pc = "submit"] ELSE Return(got, "Passed")

\* what moderateText can return, over every configuration and every
\* behaviour of the two services
ModerateOutcomes == {moderateText(cfg, svc) : cfg \in ModCfgs, svc \in ModSvcs}

Score(r) ==
  /\ run[r].pc = "score"
  /\ IF IsKeeper(variant)
     THEN \E m \in ModerateOutcomes :
            Set(r, AfterModerate(run[r], m))
     ELSE \E s \in {ScoreText(variant, run[r].text, svc) : svc \in PerspectiveSvcs} :
            Set(r, AfterScores(run[r], s, Decide(variant, s)))
  /\ UNCHANGED <<Ledger, Calls, dryRun>>

\* (mutant) a rejected call is sent again
AfterSubmit_Retry(v, rec, accepted) ==
  LET sent == Count(rec, "submit", 1)
  IN IF ~accepted /\ sent.n.submit < 3 THEN [sent EXCEPT !.tx = "rejected"]
     ELSE IF ~accepted THEN Catch([sent EXCEPT !.tx = "rejected"], "ActionFailed")
     ELSE IF WaitsReceipt(v) THEN [sent EXCEPT !.tx = "pending", !.pc = "wait"]
     ELSE Return([sent EXCEPT !.tx = "pending"], "Flagged")

\* 7) setModerationFlag(id, true) is sent: the call is rejected (it throws), or
\* the transaction is accepted and pending.
AfterSubmit(v, rec, accepted) ==
  LET sent == Count(rec, "submit", 1)
  IN IF ~accepted THEN Catch([sent EXCEPT !.tx = "rejected"], "ActionFailed")
     ELSE IF WaitsReceipt(v) THEN [sent EXCEPT !.tx = "pending", !.pc = "wait"]
     ELSE Return([sent EXCEPT !.tx = "pending"], "Flagged")

Submit(r) ==
  /\ run[r].pc = "submit"
  /\ \E accepted \in BOOLEAN : Set(r, AfterSubmit(variant, run[r], accepted))
  /\ UNCHANGED <<Ledger, Calls, dryRun>>

\* (mutant) the transaction carries flagged = false
Mine_ClearsFlag(r) ==
  /\ run[r].tx = "pending"
  /\ \/ /\ Set(r, [run[r] EXCEPT !.tx = "success"])
        /\ modFlagged' = [modFlagged EXCEPT ![run[r].id] = FALSE]
     \/ /\ Set(r, [run[r] EXCEPT !.tx = "reverted"])
        /\ UNCHANGED modFlagged
  /\ UNCHANGED <<variant, activeMessageId, messages, Calls, dryRun>>

\* The ledger mines a pending transaction: it succeeds and sets the flag of
\* its item, or it reverts and changes nothing.
Mine(r) ==
  /\ run[r].tx = "pending"
  /\ \/ /\ Set(r, [run[r] EXCEPT !.tx = "success"])
        /\ modFlagged' = [modFlagged EXCEPT ![run[r].id] = TRUE]
     \/ /\ Set(r, [run[r] EXCEPT !.tx = "reverted"])
        /\ UNCHANGED modFlagged
  /\ UNCHANGED <<variant, activeMessageId, messages, Calls, dryRun>>

\* the receipt arrives: a reverted transaction throws
AfterReceipt(v, rec) ==
  IF rec.tx = "reverted" THEN Catch(rec, "ActionFailed")
  ELSE IF IsKeeper(v) THEN [rec EXCEPT !.pc = "sleep"]
  ELSE Return(rec, "Flagged")

Receipt(r) ==
  /\ run[r].pc = "wait" /\ run[r].tx \in {"success", "reverted"}
  /\ Set(r, AfterReceipt(variant, run[r]))
  /\ UNCHANGED <<Ledger, Calls, dryRun>>

\* await sleep(CONFIG.rateLimitMs) of the keepers
Cooldown(r) ==
  /\ run[r].pc = "sleep"
  /\ Set(r, Return(run[r], "Flagged"))
  /\ UNCHANGED <<Ledger, Calls, dryRun>>

Next ==
  \E r \in Runs :
    \/ Start(r)
    \/ ReadActiveId(r)
    \/ ReadMessage(r)
    \/ ReadModFlagged(r)
    \/ Resolve(r)
    \/ Score(r)
    \/ Submit(r)
    \/ Mine(r)
    \/ Receipt(r)
    \/ Cooldown(r)

Spec == Init /\ [][Next]_vars

\* ---------------------------------------------------------------- single functions
\* The scoring and decision functions examined on their own: one call of one
\* function on one input, over every answer of the services.

\* Answers of the scoring service at the thresholds and next to them
EdgeValues == {49, 50, 69, 70, 74, 75, 79, 80, 82, 83, 84, 85, 89, 90, 94, 95, 100}
EdgeScores ==
  SampleScores \cup {[ZeroScores EXCEPT ![a] = x] : a \in Attrs, x \in EdgeValues}
     \cup { [ZeroScores EXCEPT !["SEVERE_TOXICITY"] = 50, !["IDENTITY_ATTACK"] = 100],
            [a \in Attrs |-> 49],
            [a \in Attrs |-> CASE a = "TOXICITY" -> 84 [] a = "THREAT" -> 69
                                [] a = "IDENTITY_ATTACK" -> 74 [] OTHER -> 79] }

\* Sequences of LANGUAGE_NOT_SUPPORTED_BY_ATTRIBUTE answers: the attribute each
\* one names.  The service is free to name any attribute, also one that is
\* not (or no longer) in the request.
Repeat(a, n) == [i \in 1..n |-> a]
CallRejects ==
  SampleRejects \cup
  { <<"TOXICITY", "INSULT", "THREAT", "SEXUALLY_EXPLICIT", "PROFANITY", "IDENTITY_ATTACK">>,
    <<"IDENTITY_ATTACK", "PROFANITY", "SEXUALLY_EXPLICIT", "THREAT", "INSULT", "TOXICITY",
      "TOXICITY">>,
    <<"SEVERE_TOXICITY">>,
    <<"THREAT", "THREAT">>,
    Repeat("THREAT", 7) }
CallSvcs == [auth : {"key", "adc", "notoken"}, final : FinalAnswers, rejects : CallRejects]

\* texts handed to the scoring call: short, longer than every cap, and one
\* whose first 3000 characters are blank
CallTexts == {Str(0, 5, "text"), Str(0, 9000, "text"), Str(3000, 3005, "text")}

\* the attributes a score map carries
Presents == {Attrs} \cup {Attrs \ {a} : a \in Attrs}

KeyCfgs == [order : {<<"perspective", "openai">>}, perspectiveKey : BOOLEAN,
            openaiKey : BOOLEAN]

\* references handed to the resolver: those of the runs, an inline text with
\* a stray percent sign, one that is a single space, one with an empty
\* payload, inline data longer than every cap, inline data of another media type
CallUris ==
  SampleUris \cup
  { Uri("meow", <<"a", "%", "a">>, EmptyText),
    Uri("meow", <<"sp">>, EmptyText),
    Uri("meow", <<>>, EmptyText),
    Uri("data", <<>>, Str(0, 12000, "data")),
    Uri("dataOther", <<>>, Str(0, 5, "data")) }

\* answers of the gateways and of the off-chain index: every combination of
\* gateway answers with no index configured, and every index with one
\* combination of gateway answers
CallNetApis ==
  [net : Nets, api : {[configured |-> FALSE, answer |-> Fetched("throw", EmptyText)]}]
  \cup [net : {[k \in 1..3 |-> Fetched("notok", EmptyText)]}, api : Apis]

\* MOD_PROVIDER_ORDER as an operator can set it: the orders of the runs and
\* orders with identifiers that name no provider
CallOrders ==
  Orders \cup { <<"openai">>, <<"azure">>, <<"azure", "google">>, <<"azure", "openai">>,
                <<"perspective", "azure", "openai">> }
CallModCfgs == [order : CallOrders, perspectiveKey : BOOLEAN, openaiKey : BOOLEAN]

\* a success answer of the scoring service whose body is not JSON
BadJson == [kind |-> "badjson", scores |-> ZeroScores, attr |-> "none"]
CallModSvcs == [perspective : FinalAnswers \cup {BadJson}, openai : OpenAIAnswers]

\* the inputs of each function
CallInputs ==
  [ moderateText |-> [cfg : CallModCfgs, svc : CallModSvcs],
    requestText |-> [adapter : Adapters, text : CallTexts],
    analyzeWithPerspective |->
      [cfg : KeyCfgs,
       svc : [perspective : {NotOk, Throws} \cup {Ok(m) : m \in EdgeScores},
              openai : {CHOOSE o \in OpenAIAnswers : o.kind = "notok"}]],
    analyzeWithOpenAI |->
      [cfg : KeyCfgs, svc : [perspective : {NotOk}, openai : OpenAIAnswers]],
    perspectiveScores |->
      [v : {"mod", "mod3", "mod4", "bot"}, text : CallTexts, svc : CallSvcs],
    shouldFlag |->
      [v : {"mod", "bot"}, kind : {"map"}, m : EdgeScores, present : Presents]
      \cup [v : {"mod", "bot"}, kind : {"null"}, m : {ZeroScores}, present : {Attrs}],
    resolve |-> [v : Variants, uri : CallUris, env : CallNetApis],
    fetchMeowTextByHash |-> [api : Apis] ]

InitCalls ==
  /\ variant = "mod"
  /\ activeMessageId = 0
  /\ messages = [i \in Ids |-> [resolved |-> TRUE, uri |-> NoUri]]
  /\ modFlagged = [i \in Ids |-> FALSE]
  /\ run = [r \in Runs |-> InitRun]
  /\ dryRun = FALSE
  /\ callFn \in DOMAIN CallInputs
  /\ callArg \in CallInputs[callFn]
  /\ callRet = NoRet

Returns(val) ==
  /\ ~callRet.done
  /\ callRet' = [done |-> TRUE, val |-> val]
  /\ UNCHANGED <<Ledger, run, callFn, callArg, dryRun>>

\* await moderateText(text)
CallModerateText ==
  /\ callFn = "moderateText"
  /\ Returns(moderateText(callArg.cfg, callArg.svc))

\* await analyzeWithPerspective(text)
CallAnalyzeWithPerspective ==
  /\ callFn = "analyzeWithPerspective"
  /\ Returns(AnalyzeWithPerspective(callArg.cfg, callArg.svc))

\* await analyzeWithOpenAI(text)
CallAnalyzeWithOpenAI ==
  /\ callFn = "analyzeWithOpenAI"
  /\ Returns(AnalyzeWithOpenAI(callArg.cfg, callArg.svc))

\* await perspectiveScores(text) / perspectiveScore(text)
CallPerspectiveScores ==
  /\ callFn = "perspectiveScores"
  /\ Returns(ScoreText(callArg.v, callArg.text, callArg.svc))

\* shouldFlag(scores), on a map that carries the attributes of present
CallShouldFlag ==
  /\ callFn = "shouldFlag"
  /\ Returns(Decide(callArg.v,
                    Scored(callArg.kind, TakeScores(callArg.m, callArg.present), 0)))

\* JSON.stringify(body) of the request an adapter sends for text
CallRequestText ==
  /\ callFn = "requestText"
  /\ Returns([text |-> RequestText(callArg.adapter, callArg.text)])

\* await getTextFromUri(uri) / fetchTextFromUri(uri) / resolveMessageText(uri, hash)
CallResolve ==
  /\ callFn = "resolve"
  /\ Returns(ResolveText(callArg.v, callArg.uri, callArg.env.net, callArg.env.api))

\* await fetchMeowTextByHash(hashHex)
CallFetchMeowTextByHash ==
  /\ callFn = "fetchMeowTextByHash"
  /\ Returns(FetchMeowTextByHash(callArg.api))

NextCalls ==
  \/ CallModerateText
  \/ CallAnalyzeWithPerspective
  \/ CallAnalyzeWithOpenAI
  \/ CallPerspectiveScores
  \/ CallShouldFlag
  \/ CallResolve
  \/ CallFetchMeowTextByHash
  \/ CallRequestText

SpecCalls == InitCalls /\ [][NextCalls]_vars

\* ---------------------------------------------------------------- properties
Done(r) == run[r].pc = "done"

\* the run has obtained a verdict / the verdict it obtained flags
HasVerdict(r) ==
  IF IsKeeper(variant) THEN run[r].mod.provider # "unset" ELSE run[r].scoreKind # "unset"
VerdictFlagged(r) ==
  IF IsKeeper(variant) THEN run[r].mod.flagged
  ELSE Decide(variant, [kind |-> run[r].scoreKind, scores |-> run[r].scores])

\* the ledger reads the run awaited have returned
ReadsReturned(r) == run[r].n.item > 0 /\ run[r].pending = {}

\* C1: in every run, whatever the ledger and the services answer and however
\* many thresholds are exceeded, setModerationFlag is sent at most once.
C1_AtMostOneSubmit == \A r \in Runs : run[r].n.submit <= 1

\* a finished run that sent the call once on a verdict with several reasons
C1_Witness ==
  \E r \in Runs :
    /\ Done(r) /\ run[r].n.submit = 1
    /\ \/ Len(run[r].mod.reasons) >= 2
       \/ run[r].scores["TOXICITY"] >= 85 /\ run[r].scores["THREAT"] >= 70

\* C2: a run sends the call only if the item record it read had resolved ==
\* false and its read of modFlagged returned false.
C2_SubmitOnlyAfterBothChecks ==
  \A r \in Runs :
    run[r].n.submit > 0 => run[r].resolved = "false" /\ run[r].flagged = "false"

\* C3: a run that read modFlagged == false and holds a flagging verdict does
\* not send the call when the flag has been set in the meantime; it ends as
\* AlreadyFlagged.
C3_RecheckBeforeSubmit ==
  [][\A r \in Runs :
       (/\ run[r].pc = "submit" /\ run[r].flagged = "false"
        /\ modFlagged[run[r].id]
        /\ run'[r] # run[r])
       => run'[r].outcome = "AlreadyFlagged" /\ run'[r].n.submit = 0]_vars

\* C4: a run started after a run ended Flagged, the flag of the active item
\* being set and the ledger unchanged, ends as AlreadyFlagged and sends nothing
\* (runs that an RPC failure ended are left aside).
C4_SecondRunAlreadyFlagged ==
  \A r \in Runs :
    (run[r].after /\ Done(r) /\ run[r].outcome # "InternalError")
    => run[r].outcome = "AlreadyFlagged" /\ run[r].n.submit = 0

\* C5: when two runs both passed the flagged check and both sent the call,
\* a run whose call was rejected or reverted has ended as ActionFailed with a
\* non-zero exit code once it is over, and it sent the call once.
C5_RevertIsActionFailed ==
  \A r \in Runs, q \in Runs :
    (/\ r # q
     /\ run[r].flagged = "false" /\ run[q].flagged = "false"
     /\ run[r].n.submit > 0 /\ run[q].n.submit > 0
     /\ run[r].tx \in {"rejected", "reverted"} /\ Done(r))
    => run[r].outcome = "ActionFailed" /\ run[r].exit = 1 /\ run[r].n.submit = 1

\* C6: in every run no content is resolved and no scoring call is made before
\* modFlagged was read as false, the ledger reads come after the read of the
\* active id, the call is sent only on a flagging verdict, and a finished run
\* takes no further step.
C6_StepOrder(r) ==
  /\ (run[r].n.item > 0 \/ run[r].n.flag > 0) => run[r].n.id > 0
  /\ (run[r].n.resolve > 0 \/ run[r].n.score > 0)
       => run[r].resolved = "false" /\ run[r].flagged = "false"
  /\ run[r].n.score > 0 => run[r].n.resolve > 0
  /\ run[r].n.submit > 0 => HasVerdict(r) /\ VerdictFlagged(r)
C6_FixedOrder ==
  [][\A r \in Runs :
       /\ C6_StepOrder(r)'
       /\ Done(r) => /\ run'[r].pc = "done"
                     /\ run'[r].outcome = run[r].outcome
                     /\ run'[r].n = run[r].n]_vars

\* C7: a run that read 0 as the active id ends as NoActiveItem, having read no
\* item record and no flagged state, fetched no content, made no scoring call
\* and sent no transaction.
C7_NoActiveItem ==
  \A r \in Runs :
    (run[r].n.id > 0 /\ run[r].id = 0)
    => /\ Done(r) /\ run[r].outcome = "NoActiveItem" /\ run[r].exit = 0
       /\ run[r].n = [NoCalls EXCEPT !["id"] = 1]
       /\ run[r].tx = "none"

C7_Witness ==
  \E r \in Runs : run[r].n.id > 0 /\ run[r].id = 0 /\ run[r].outcome = "NoActiveItem"

\* C8: a run whose item record has resolved == true ends as AlreadyResolved,
\* whatever the flagged state is: it resolves no content, calls no provider
\* and sends no transaction.
C8_AlreadyResolved ==
  \A r \in Runs :
    (ReadsReturned(r) /\ run[r].resolved = "true")
    => /\ Done(r) /\ run[r].outcome = "AlreadyResolved" /\ run[r].exit = 0
       /\ run[r].n.resolve = 0 /\ run[r].n.fetch = 0 /\ run[r].n.score = 0
       /\ run[r].n.submit = 0 /\ run[r].tx = "none"

\* a resolved item whose flag was read as set
C8_Witness ==
  \E r \in Runs :
    /\ ReadsReturned(r) /\ run[r].resolved = "true" /\ run[r].flagged = "true"
    /\ run[r].outcome = "AlreadyResolved"

\* C9: a run whose content resolution yields null, an empty string or a
\* whitespace-only string ends as NoRetrievableText with exit code 0, calls no
\* provider and sends no transaction.
C9_NoRetrievableText ==
  \A r \in Runs :
    (run[r].n.resolve > 0 /\ (run[r].text.isNull \/ TrimIsEmpty(run[r].text)))
    => /\ Done(r) /\ run[r].outcome = "NoRetrievableText" /\ run[r].exit = 0
       /\ run[r].n.score = 0 /\ run[r].n.submit = 0 /\ run[r].tx = "none"

\* a whitespace-only text was resolved
C9_Witness ==
  \E r \in Runs :
    /\ run[r].n.resolve > 0 /\ ~run[r].text.isNull
    /\ run[r].text.len > 0 /\ TrimIsEmpty(run[r].text)
    /\ run[r].outcome = "NoRetrievableText"

\* C10: a run whose verdict has flagged == false ends as Passed and sends no
\* transaction.
C10_Passed ==
  \A r \in Runs :
    (HasVerdict(r) /\ ~VerdictFlagged(r))
    => /\ Done(r) /\ run[r].outcome = "Passed" /\ run[r].exit = 0
       /\ run[r].n.submit = 0 /\ run[r].tx = "none"

\* a verdict that carries a reason and does not flag
C10_Witness ==
  \E r \in Runs :
    /\ HasVerdict(r) /\ ~VerdictFlagged(r) /\ run[r].outcome = "Passed"
    /\ Len(run[r].mod.reasons) > 0

\* C11: a run that sent the call does not end before the transaction is
\* confirmed: it ends as Flagged only when the transaction has succeeded, and
\* a run whose transaction reverted ends as ActionFailed.
C11_WaitsForConfirmation ==
  \A r \in Runs :
    (Done(r) /\ run[r].n.submit > 0)
    => /\ run[r].tx \in {"rejected", "success", "reverted"}
       /\ run[r].outcome = "Flagged" => run[r].tx = "success"
       /\ run[r].tx = "reverted" => run[r].outcome = "ActionFailed"

\* the run reached the scoring step and ended without a verdict: the
\* classification service was unavailable or answered with a non-success status
ScoringFailed(r) ==
  /\ Done(r) /\ run[r].n.resolve > 0 /\ ~NoText(run[r].text)
  /\ ~HasVerdict(r)

\* C12: a finished run has exit code 0 when its outcome is NoActiveItem,
\* AlreadyResolved, AlreadyFlagged, NoRetrievableText, Passed or Flagged, a
\* non-zero exit code only for ActionFailed and internal errors, and a run
\* whose classification service was unavailable exits 0.
C12_ExitCodes ==
  \A r \in Runs :
    Done(r)
    => /\ run[r].outcome \in {"NoActiveItem", "AlreadyResolved", "AlreadyFlagged",
                              "NoRetrievableText", "Passed", "Flagged"}
            => run[r].exit = 0
       /\ run[r].exit # 0 => run[r].outcome \in {"ActionFailed", "InternalError"}
       /\ ScoringFailed(r) => run[r].exit = 0

\* ---- the single functions
Returned(f) == callFn = f /\ callRet.done

\* the provider has a key / has a key and answers the request with success
HasKey(cfg, p) ==
  CASE p = "perspective" -> cfg.perspectiveKey
    [] p = "openai" -> cfg.openaiKey
    [] OTHER -> FALSE
Responded(cfg, svc, p) == HasKey(cfg, p) /\ svc[p].kind = "ok"

\* positions of the configured order up to k whose provider has a key: the
\* requests sent when the providers 1..k are consulted
Requested(cfg, k) == {j \in 1..k : HasKey(cfg, cfg.order[j])}

\* the threshold tables of the three decision functions
PolicyOf(p) ==
  CASE p = "mod" ->
         [TOXICITY |-> 85, INSULT |-> 80, THREAT |-> 70, SEXUALLY_EXPLICIT |-> 90,
          PROFANITY |-> 80, IDENTITY_ATTACK |-> 75]
    [] p = "bot" ->
         [TOXICITY |-> 85, INSULT |-> 85, PROFANITY |-> 85, THREAT |-> 80]
    [] p = "perspective" ->
         [SEVERE_TOXICITY |-> 50, TOXICITY |-> 83, THREAT |-> 80, INSULT |-> 90,
          PROFANITY |-> 95, SEXUALLY_EXPLICIT |-> 90, IDENTITY_ATTACK |-> 80]

\* some attribute of the policy that the map carries has a score at or above
\* its threshold
Exceeds(policy, m, present) ==
  \E a \in DOMAIN policy : a \in present /\ m[a] >= policy[a]

\* the labels of the reasons each provider gives
OwnLabels(p) ==
  IF p = "perspective" THEN Attrs
  ELSE {"OPENAI:hate", "OPENAI:violence", "openai: empty"}

AllUnavailable(cfg, svc) ==
  \A k \in 1..Len(cfg.order) : ~Responded(cfg, svc, cfg.order[k])

C15_NoCredentialNoCall ==
  /\ (Returned("analyzeWithPerspective") /\ ~callArg.cfg.perspectiveKey)
       => /\ callRet.val.calls = 0
          /\ Includes(callRet.val.reasons, "perspective: unavailable")
  /\ (Returned("analyzeWithOpenAI") /\ ~callArg.cfg.openaiKey)
       => /\ callRet.val.calls = 0
          /\ Includes(callRet.val.reasons, "openai: no key")
  /\ (Returned("perspectiveScores") /\ callArg.svc.auth = "notoken")
       => callRet.val.calls = 0 /\ callRet.val.kind # "throw"

\* C16: an adapter with a credential whose request is answered with a
\* non-success status other than the attribute rejection reports Unavailable:
\* it does not throw.
C16_NonSuccessIsUnavailable ==
  /\ (/\ Returned("analyzeWithPerspective") /\ callArg.cfg.perspectiveKey
      /\ callArg.svc.perspective.kind = "notok")
       => /\ ~callRet.val.flagged
          /\ Includes(callRet.val.reasons, "perspective: unavailable")
  /\ (/\ Returned("analyzeWithOpenAI") /\ callArg.cfg.openaiKey
      /\ callArg.svc.openai.kind = "notok")
       => /\ ~callRet.val.flagged
          /\ Includes(callRet.val.reasons, "openai: unavailable")
  /\ (/\ Returned("perspectiveScores") /\ callArg.svc.auth # "notoken"
      /\ callArg.svc.final.kind = "notok")
       => callRet.val.kind # "throw"

\* the attributes named by the first k rejections
Dropped(rejects, k) == {rejects[i] : i \in 1..k}

\* C17: the language-aware perspectiveScores drops exactly the attributes the
\* service rejected: when the final answer is a success the map carries the
\* service's score for every default attribute that was not rejected and 0
\* for every other, after one request per rejection and one more; when all
\* six were rejected it returns the all-zero map after the request that
\* emptied the set, without failing.
C17_DropsExactlyTheRejected ==
  (/\ Returned("perspectiveScores") /\ callArg.v = "mod3"
   /\ callArg.svc.auth # "notoken")
  => LET rj == callArg.svc.rejects
         fin == callArg.svc.final
         r == callRet.val
         emptied == {k \in 1..Len(rj) : DEFAULT_ATTRS \subseteq Dropped(rj, k)}
     IN IF emptied # {}
        THEN /\ r.kind = "map" /\ r.scores = ZeroScores
             /\ r.calls = CHOOSE k \in emptied : \A j \in emptied : k <= j
        ELSE fin.kind = "ok"
             => /\ r.kind = "map"
                /\ r.calls = Len(rj) + 1
                /\ \A a \in Attrs :
                     r.scores[a] = IF a \in DEFAULT_ATTRS \ Dropped(rj, Len(rj))
                                   THEN fin.scores[a] ELSE 0

\* two attributes were rejected, the third request succeeded
C17_Witness ==
  /\ Returned("perspectiveScores") /\ callArg.v = "mod3"
  /\ callArg.svc.auth = "key"
  /\ callArg.svc.rejects = <<"TOXICITY", "THREAT">>
  /\ callArg.svc.final.kind = "ok" /\ callArg.svc.final.scores["TOXICITY"] = 100
  /\ callRet.val.calls = 3
  /\ callRet.val.scores["TOXICITY"] = 0 /\ callRet.val.scores["INSULT"] = 100

\* C18: whatever the service answers, the language-aware perspectiveScores
\* sends at most as many requests as it has default attributes (6).
C18_RetryBounded ==
  (Returned("perspectiveScores") /\ callArg.v = "mod3")
  => callRet.val.calls <= Cardinality(DEFAULT_ATTRS)

\* C19: the decision flags exactly when some attribute of its threshold table
\* has a score, 0 when the map omits it, at or above its threshold; null
\* scores do not flag.
C19_FlagsIffThresholdReached ==
  /\ Returned("shouldFlag")
       => callRet.val = /\ callArg.kind = "map"
                        /\ Exceeds(PolicyOf(callArg.v), callArg.m, callArg.present)
  /\ (/\ Returned("analyzeWithPerspective") /\ callArg.cfg.perspectiveKey
      /\ callArg.svc.perspective.kind = "ok")
       => callRet.val.flagged = Exceeds(PolicyOf("perspective"),
                                         callArg.svc.perspective.scores, Attrs)

\* the only score above 0 is exactly at its threshold, and the decision flags
C19_Witness ==
  /\ Returned("shouldFlag") /\ callArg.v = "mod" /\ callArg.kind = "map"
  /\ callArg.present = Attrs
  /\ callArg.m = [ZeroScores EXCEPT !["TOXICITY"] = 85]
  /\ callRet.val = TRUE

\* C20: every verdict moderateText returns from a provider has flagged true
\* exactly when it carries a reason.
C20_FlaggedIffReasons ==
  (Returned("moderateText") /\ callRet.val.provider # "none")
  => (callRet.val.flagged <=> Len(callRet.val.reasons) > 0)

\* the order in which analyzeWithPerspective declares its thresholds
DeclarationOrder ==
  <<"SEVERE_TOXICITY", "TOXICITY", "THREAT", "INSULT", "PROFANITY", "SEXUALLY_EXPLICIT",
    "IDENTITY_ATTACK">>
DeclaredAt(a) == CHOOSE i \in 1..Len(DeclarationOrder) : DeclarationOrder[i] = a

\* C21: the reasons of a verdict are a function of the answer alone and come in
\* declaration order whatever the scores are: in the score-based path one
\* reason per attribute at or above its threshold, in the order the thresholds
\* are declared, each carrying its score; in the categorical path one reason
\* per category of the answer, in the answer's order.
C21_ReasonsInDeclarationOrder ==
  /\ (/\ Returned("analyzeWithPerspective") /\ callArg.cfg.perspectiveKey
      /\ callArg.svc.perspective.kind = "ok")
       => LET rs == callRet.val.reasons
              m == callArg.svc.perspective.scores
          IN /\ \A i \in 1..Len(rs), j \in 1..Len(rs) :
                  i < j => DeclaredAt(rs[i].label) < DeclaredAt(rs[j].label)
             /\ {rs[i].label : i \in 1..Len(rs)}
                  = {a \in Attrs : m[a] >= PolicyOf("perspective")[a]}
             /\ \A i \in 1..Len(rs) : rs[i].value = m[rs[i].label]
  /\ (/\ Returned("analyzeWithOpenAI") /\ callArg.cfg.openaiKey
      /\ callArg.svc.openai.kind = "ok" /\ callArg.svc.openai.present)
       => LET rs == callRet.val.reasons
              cats == callArg.svc.openai.cats
          IN /\ Len(rs) = Len(cats)
             /\ \A i \in 1..Len(rs) : rs[i].label = "OPENAI:" \o cats[i]

\* two reasons, the one declared later with the higher score
C21_Witness ==
  /\ Returned("analyzeWithPerspective")
  /\ Len(callRet.val.reasons) = 2
  /\ callRet.val.reasons[1].label = "SEVERE_TOXICITY"
  /\ callRet.val.reasons[2].label = "IDENTITY_ATTACK"
  /\ callRet.val.reasons[1].value < callRet.val.reasons[2].value

\* the result of the resolver
ResolvedText == callRet.val.text

\* C22: an inline-text reference with a non-empty payload resolves to the
\* percent-decoded payload, to the raw payload when decoding fails, and never
\* to null.
C22_InlineTextNeverDropped ==
  (Returned("resolve") /\ callArg.uri.scheme = "meow" /\ callArg.uri.tokens # <<>>)
  => /\ ~ResolvedText.isNull
     /\ ResolvedText = IF DecodeOk(callArg.uri.tokens)
                       THEN DecodeURIComponent(callArg.uri.tokens)
                       ELSE RawPayload(callArg.uri.tokens)

\* C23: an inline-binary reference of any media type resolves to its decoded
\* payload, without a network call.
C23_InlineBinaryAnyMediaType ==
  (Returned("resolve") /\ callArg.uri.scheme \in {"data", "dataOther"})
  => /\ ~ResolvedText.isNull
     /\ ResolvedText.tag = callArg.uri.body.tag
     /\ callRet.val.fetches = 0

\* C24: a reference that is empty or whose scheme is none of the supported
\* ones resolves to no text, without a network call.
C24_UnsupportedSchemeNoCall ==
  (Returned("resolve") /\ callArg.uri.scheme \in {"empty", "other"})
  => NoText(ResolvedText) /\ callRet.val.fetches = 0

\* an unsupported scheme where a request would have been answered with text
C24_Witness ==
  /\ Returned("resolve") /\ callArg.v = "mod" /\ callArg.uri.scheme = "other"
  /\ callArg.env.net[1].kind = "ok" /\ ~NoText(callArg.env.net[1].body)
  /\ ResolvedText.isNull /\ callRet.val.fetches = 0

\* the gateways, in list order, that answer with success and a body that is
\* not blank
GoodGateways(net) == {k \in 1..3 : net[k].kind = "ok" /\ ~NoText(net[k].body)}

\* C25: for an ipfs:// reference three gateways are tried in order; the result
\* is the body of the first one that answers with success and a non-empty body,
\* after every gateway before it failed, and no text when all three failed.
C25_GatewayFallback ==
  (Returned("resolve") /\ callArg.uri.scheme = "ipfs")
  => LET good == GoodGateways(callArg.env.net)
     IN IF good = {}
        THEN NoText(ResolvedText) /\ callRet.val.fetches = 3
        ELSE LET k == CHOOSE i \in good : \A j \in good : i <= j
             IN /\ ~ResolvedText.isNull
                /\ ResolvedText.tag = GwTag(k)
                /\ callRet.val.fetches = k

\* the cap of the resolver of a version
CapOf(v) == IF IsKeeper(v) THEN KeeperCap ELSE TextCap

\* C26: every text the resolver returns is at most as long as the cap.
C26_TextWithinCap ==
  (Returned("resolve") /\ ~ResolvedText.isNull)
  => ResolvedText.len <= CapOf(callArg.v)

\* C27: for a reference that is fetched (ipfs, http) the resolver returns text
\* or no text whatever the fetches do, and no text only after every candidate
\* (three gateways for ipfs, the URL itself for http) was tried and failed.
C27_NullOnlyWhenExhausted ==
  (/\ Returned("resolve") /\ callArg.uri.scheme \in {"ipfs", "http"}
   /\ NoText(ResolvedText))
  => /\ callRet.val.fetches >= (IF callArg.uri.scheme = "ipfs" THEN 3 ELSE 1)
     /\ \A k \in 1..callRet.val.fetches :
          ~(callArg.env.net[k].kind = "ok" /\ ~NoText(callArg.env.net[k].body))

\* C28: without an index endpoint the lookup by digest returns null and makes
\* no request; with one, a failed request, a non-success answer and an answer
\* without a text also give null.
C28_LookupDisabled ==
  Returned("fetchMeowTextByHash") =>
    /\ ~callArg.api.configured
         => callRet.val.text.isNull /\ callRet.val.fetches = 0
    /\ (callArg.api.configured
        /\ (callArg.api.answer.kind # "ok" \/ callArg.api.answer.body.len = 0))
         => callRet.val.text.isNull /\ callRet.val.fetches = 1

\* no endpoint configured, where the index would have answered with a text
C28_Witness ==
  /\ Returned("fetchMeowTextByHash") /\ ~callArg.api.configured
  /\ callArg.api.answer.kind = "ok" /\ callArg.api.answer.body.len > 0
  /\ callRet.val.text.isNull /\ callRet.val.fetches = 0

\* C29: with DRY_RUN set to true no run sends setModerationFlag.
C29_DryRunSendsNothing ==
  \A r \in Runs : dryRun => run[r].n.submit = 0

C31_EmptyPayloadIsUnavailable ==
  (/\ Returned("moderateText") /\ callArg.cfg.openaiKey
   /\ callArg.svc.openai.kind = "ok"
   /\ (callArg.svc.openai.json = "throws" \/ ~callArg.svc.openai.present))
  => /\ callRet.val.provider # "openai"
     /\ ~Includes(callRet.val.reasons, "openai: empty")

\* the cap of an adapter
AdapterCap(adapter) == IF adapter = "perspectiveScore" THEN BotDocCap ELSE ClipCap

\* C32: the text an adapter sends to its service is never longer than the
\* adapter's cap, whatever the length of the text it is called with.
C32_RequestTextWithinCap ==
  Returned("requestText") => callRet.val.text.len <= AdapterCap(callArg.adapter)

\* C33: for a direct http(s) reference the resolver makes exactly one fetch
\* attempt, whether it succeeds or fails.
C33_OneAttemptPerUrl ==
  (Returned("resolve") /\ callArg.uri.scheme = "http") => callRet.val.fetches = 1

\* consulting the provider throws: the request is rejected, or the body of a
\* success answer cannot be parsed
Threw(svc, p) ==
  IF p = "perspective" THEN svc.perspective.kind \in {"throw", "badjson"}
  ELSE svc.openai.kind = "throw" \/ (svc.openai.kind = "ok" /\ svc.openai.json = "throws")

\* C34: when consulting a provider of the order throws, moderateText still
\* returns a verdict, and the verdict is not that provider's: the next one
\* was tried.
C34_ExceptionMovesOn ==
  Returned("moderateText") =>
    \A k \in 1..Len(callArg.cfg.order) :
      LET p == callArg.cfg.order[k]
      IN (HasKey(callArg.cfg, p) /\ Threw(callArg.svc, p))
         => /\ callRet.val.provider # p
            /\ callRet.val.provider \in {"perspective", "openai", "none"}

\* the identifiers of an order that name a provider
IsProvider(p) == p \in {"perspective", "openai"}
KnownOrder(order) == SelectSeq(order, IsProvider)

\* C35: an identifier of the order that names no provider is skipped: the
\* verdict and the requests sent are those of the order without it, the
\* verdict is never attributed to it, and an order made only of such
\* identifiers gives not flagged, provider none, without any request.
C35_UnknownProviderSkipped ==
  Returned("moderateText") =>
    LET cfg == callArg.cfg
        r == callRet.val
    IN /\ r = moderateText([cfg EXCEPT !.order = KnownOrder(cfg.order)], callArg.svc)
       /\ r.provider \in {"perspective", "openai", "none"}
       /\ r.calls <= Len(KnownOrder(cfg.order))
       /\ KnownOrder(cfg.order) = <<>>
            => ~r.flagged /\ r.provider = "none" /\ r.calls = 0

\* only unknown identifiers, while both services would have flagged
C35_Witness ==
  /\ Returned("moderateText")
  /\ callArg.cfg.order = <<"azure", "google">>
  /\ callArg.cfg.perspectiveKey /\ callArg.cfg.openaiKey
  /\ callArg.svc.openai.kind = "ok" /\ callArg.svc.openai.flagged
  /\ callArg.svc.perspective.kind = "ok" /\ callArg.svc.perspective.scores["TOXICITY"] = 100
  /\ ~callRet.val.flagged /\ callRet.val.provider = "none" /\ callRet.val.calls = 0

\* the default attributes the retries of a returned call have dropped
DroppedBy(rejects, calls) ==
  DEFAULT_ATTRS \cap Dropped(rejects, Min(calls, Len(rejects)))

\* C36: a score map returned by the language-aware perspectiveScores carries
\* all six default attributes; every attribute dropped during the retries has
\* score 0, so a flag is always due to an attribute that was not dropped; and
\* when all six were dropped the map is all zero and the decision is not to
\* flag.
C36_DroppedAttributesScoreZero ==
  (/\ Returned("perspectiveScores") /\ callArg.v = "mod3"
   /\ callRet.val.kind = "map")
  => LET m == callRet.val.scores
         dropped == DroppedBy(callArg.svc.rejects, callRet.val.calls)
     IN /\ DEFAULT_ATTRS \subseteq DOMAIN m
        /\ \A a \in dropped : m[a] = 0
        /\ Decide("mod3", callRet.val)
             => \E a \in DEFAULT_ATTRS \ dropped : m[a] >= PolicyOf("mod")[a]
        /\ dropped = DEFAULT_ATTRS
             => /\ \A a \in DEFAULT_ATTRS : m[a] = 0
                /\ ~Decide("mod3", callRet.val)

\* all six attributes were dropped although the service scores them at 1.00
C36_Witness ==
  /\ Returned("perspectiveScores") /\ callArg.v = "mod3"
  /\ callArg.svc.auth = "key"
  /\ Len(callArg.svc.rejects) = 6
  /\ callArg.svc.final.kind = "ok" /\ callArg.svc.final.scores["TOXICITY"] = 100
  /\ callRet.val.kind = "map" /\ callRet.val.calls = 6
  /\ callRet.val.scores["TOXICITY"] = 0
  /\ ~Decide("mod3", callRet.val)

====
